---- MODULE Spec2Model ----
(***************************************************************************)
(* Model of playbooks/plugins/filter/osa-filters.py: the jinja2 filters    *)
(* pip_requirement_names, pip_constraint_update, git_link_parse,           *)
(* bit_length_power_of_2 and deprecated, with the helpers they call.       *)
(*                                                                         *)
(* A Python str is a sequence of one-character strings, so that split,     *)
(* lower, startswith and the ordering used by sorted() are computed and    *)
(* not assumed.  None is the one-element sequence None, which is not a     *)
(* character and therefore differs from every str.                         *)
(***************************************************************************)
EXTENDS Integers, Sequences, FiniteSets, TLC

VARIABLES fn, args, ret, handlers, level, emitted

vars == <<fn, args, ret, handlers, level, emitted>>

logger == <<handlers, level, emitted>>

(* ----------------------------- bounds ---------------------------------- *)

\* longest requirement string given to _pip_requirement_split
MaxReqLen == 3

\* longest list given to pip_requirement_names and pip_constraint_update
MaxList == 2

\* most pieces concatenated into a git_link_parse input
MaxPieces == 4

\* bit_length_power_of_2 is applied to -MaxValue .. MaxValue
MaxValue == 40

\* most log lines the deprecation logger emits before the model stops
MaxLines == 3

(* ------------------------- Python str and list -------------------------- *)

None == <<"None">>

\* the printable ASCII characters in code order, starting at code 32 (codes 34
\* and 96 are written as words: no modelled input holds them)
Chr == <<
    " ", "!", "dquote", "#", "$", "%", "&", "'", "(", ")", "*", "+",
    ",", "-", ".", "/", "0", "1", "2", "3", "4", "5", "6", "7",
    "8", "9", ":", ";", "<", "=", ">", "?", "@", "A", "B", "C",
    "D", "E", "F", "G", "H", "I", "J", "K", "L", "M", "N", "O",
    "P", "Q", "R", "S", "T", "U", "V", "W", "X", "Y", "Z", "[",
    "\\", "]", "^", "_", "backtick", "a", "b", "c", "d", "e", "f", "g",
    "h", "i", "j", "k", "l", "m", "n", "o", "p", "q", "r", "s",
    "t", "u", "v", "w", "x", "y", "z", "{", "|", "}", "~"
>>

\* ord(c), tabulated once
CharCode == [c \in {Chr[i] : i \in 1..Len(Chr)} |-> 31 + CHOOSE i \in 1..Len(Chr) : Chr[i] = c]

Ord(c) == CharCode[c]

SetMin(S) == CHOOSE m \in S : \A o \in S : m <= o

\* str.lower() on one character: code 65..90 moves up by 32
LowerTable ==
    [c \in {Chr[i] : i \in 1..Len(Chr)} |->
        IF CharCode[c] >= 65 /\ CharCode[c] <= 90 THEN Chr[CharCode[c] + 32 - 31] ELSE c]

LowerChar(c) == LowerTable[c]

Lower(s) == [i \in 1..Len(s) |-> LowerChar(s[i])]

\* str.find: the first index (from 1) where sub occurs in s, 0 when it does not
Find(s, sub) ==
    LET at == {i \in 1..(Len(s) - Len(sub) + 1) : SubSeq(s, i, i + Len(sub) - 1) = sub}
    IN  IF at = {} THEN 0 ELSE SetMin(at)

Contains(s, sub) == Find(s, sub) # 0

StartsWith(s, sub) == Len(s) >= Len(sub) /\ SubSeq(s, 1, Len(sub)) = sub

\* str.split(sep)
RECURSIVE Split(_, _)
Split(s, sep) ==
    LET i == Find(s, sep)
    IN  IF i = 0 THEN <<s>>
        ELSE <<SubSeq(s, 1, i - 1)>> \o Split(SubSeq(s, i + Len(sep), Len(s)), sep)

\* str.split(sep, 1)
SplitOnce(s, sep) ==
    LET i == Find(s, sep)
    IN  IF i = 0 THEN <<s>>
        ELSE <<SubSeq(s, 1, i - 1), SubSeq(s, i + Len(sep), Len(s))>>

\* the < of Python 2 str: code order, a proper prefix first
RECURSIVE StrLess(_, _)
StrLess(s, t) ==
    IF t = <<>> THEN FALSE
    ELSE IF s = <<>> THEN TRUE
    ELSE IF Head(s) = Head(t) THEN StrLess(Tail(s), Tail(t))
    ELSE Ord(Head(s)) < Ord(Head(t))

RECURSIVE SortInsert(_, _)
SortInsert(x, l) ==
    IF l = <<>> THEN <<x>>
    ELSE IF StrLess(x, Head(l)) THEN <<x>> \o l
    ELSE <<Head(l)>> \o SortInsert(x, Tail(l))

\* sorted(list)
RECURSIVE Sorted(_)
Sorted(l) == IF l = <<>> THEN <<>> ELSE SortInsert(Head(l), Sorted(Tail(l)))

\* sorted(set)
RECURSIVE SortedSet(_)
SortedSet(S) ==
    IF S = {} THEN <<>>
    ELSE LET m == CHOOSE x \in S : \A o \in S : o = x \/ StrLess(x, o)
         IN  <<m>> \o SortedSet(S \ {m})

Range(l) == {l[i] : i \in 1..Len(l)}

\* the lists of length at most n over S
ListsUpTo(S, n) == UNION {[1..k -> S] : k \in 0..n}

\* the subsets of S with at most n elements
SetsUpTo(S, n) == {T \in SUBSET S : Cardinality(T) <= n}

\* the orders in which the elements of a set can be visited
Orders(S) == {l \in [1..Cardinality(S) -> S] : Range(l) = S}

(* ----------------------- _pip_requirement_split ------------------------- *)

\* the alternatives of version_descriptors, in the order the regex tries them
VersionDescriptors ==
    << <<">", "=">>, <<"<", "=">>, <<">">>, <<"<">>,
       <<"=", "=">>, <<"~", "=">>, <<"!", "=">> >>

\* the alternative the regex matches at index i of s, 0 when none does
MatchAt(s, i) ==
    LET hit == {k \in 1..Len(VersionDescriptors) :
                   /\ i + Len(VersionDescriptors[k]) - 1 <= Len(s)
                   /\ SubSeq(s, i, i + Len(VersionDescriptors[k]) - 1) = VersionDescriptors[k]}
    IN  IF hit = {} THEN 0 ELSE SetMin(hit)

\* \s* : the index after the white space that starts at index i of s
RECURSIVE SkipSpace(_, _)
SkipSpace(s, i) == IF i <= Len(s) /\ s[i] = " " THEN SkipSpace(s, i + 1) ELSE i

\* re.split with the capturing group: text, operator, text, operator, ...
RECURSIVE ReSplit(_)
ReSplit(s) ==
    LET at == {i \in 1..Len(s) : MatchAt(s, i) # 0}
    IN  IF at = {} THEN <<s>>
        ELSE LET i  == SetMin(at)
                 op == VersionDescriptors[MatchAt(s, i)]
                 j  == SkipSpace(s, i + Len(op))
             IN  <<SubSeq(s, 1, i - 1), op>> \o ReSplit(SubSeq(s, j, Len(s)))

_pip_requirement_split(requirement) ==
    LET req  == Split(requirement, <<";">>)
        info == ReSplit(req[1])
    IN  [name     |-> info[1],
         versions |-> IF Len(info) > 1 THEN info[2] ELSE None,
         marker   |-> IF Len(req) > 1 THEN req[2] ELSE None]

\* Python truth of a str or None
Truthy(x) == x # None /\ x # <<>>

(* ------------------------ pip_requirement_names ------------------------- *)

\* named_requirements with the comment test left out
RECURSIVE named_requirements_keep_comments(_)
named_requirements_keep_comments(requirements) ==
    IF requirements = <<>> THEN <<>>
    ELSE LET name == _pip_requirement_split(Head(requirements)).name
             rest == named_requirements_keep_comments(Tail(requirements))
         IN  IF name # <<>> THEN <<Lower(name)>> \o rest ELSE rest

\* the loop of pip_requirement_names: the list named_requirements
RECURSIVE named_requirements(_)
named_requirements(requirements) ==
    IF requirements = <<>> THEN <<>>
    ELSE LET name == _pip_requirement_split(Head(requirements)).name
             rest == named_requirements(Tail(requirements))
         IN  IF name # <<>> /\ ~StartsWith(name, <<"#">>)
             THEN <<Lower(name)>> \o rest
             ELSE rest

pip_requirement_names(requirements) ==
    SortedSet(Range(named_requirements(requirements)))

(* ------------------------ pip_constraint_update ------------------------- *)

\* the entries list_one and list_two are made of
ReqPool ==
    { <<"a">>, <<"a", "=", "=", "1">>, <<"A", ">", "=", "2">>,
      <<"b">>, <<"b", "=", "=", "1">>, <<"B", "<", "2">> }

\* _pip_requirement_split of the lower-cased entries, tabulated once
SplitTable == [r \in {Lower(q) : q \in ReqPool} |-> _pip_requirement_split(r)]

requirement_split_of(item) == SplitTable[item]

_lower_set_lists(list_one, list_two) ==
    <<{Lower(list_one[i]) : i \in 1..Len(list_one)},
      {Lower(list_two[i]) : i \in 1..Len(list_two)}>>

\* list.index(x): the first index holding x
IndexOf(l, x) == SetMin({i \in 1..Len(l) : l[i] = x})

\* ApplyOverride with the test of item2_versions left out
ApplyOverrideUnguarded(list_one, item2) ==
    LET item2_split == requirement_split_of(item2)
        same == {i \in 1..Len(list_one) :
                    item2_split.name = requirement_split_of(list_one[i]).name}
    IN  IF same = {} THEN Append(list_one, item2)
        ELSE [list_one EXCEPT ![IndexOf(list_one, list_one[SetMin(same)])] = item2]

\* one pass of the outer loop: item2 replaces the first entry of list_one that
\* has its name, or is appended; an item2 without versions changes nothing
ApplyOverride(list_one, item2) ==
    LET item2_split == requirement_split_of(item2)
        same == {i \in 1..Len(list_one) :
                    item2_split.name = requirement_split_of(list_one[i]).name}
    IN  IF ~Truthy(item2_split.versions) THEN list_one
        ELSE IF same = {} THEN Append(list_one, item2)
        ELSE [list_one EXCEPT ![IndexOf(list_one, list_one[SetMin(same)])] = item2]

RECURSIVE UpdateLoop(_, _)
UpdateLoop(list_one, list_two) ==
    IF list_two = <<>> THEN list_one
    ELSE UpdateLoop(ApplyOverride(list_one, Head(list_two)), Tail(list_two))

\* list(set) fixes no order: every result some order of the two sets gives
pip_constraint_update(list_one, list_two) ==
    LET sets == _lower_set_lists(list_one, list_two)
    IN  {Sorted(UpdateLoop(one, two)) : one \in Orders(sets[1]), two \in Orders(sets[2])}

(* --------------------- the pip filters, one call each -------------------- *)

Pending == [state |-> "pending"]

Returned(v) == [state |-> "returned", value |-> v]

Raised(e) == [state |-> "raised", error |-> e]

NoLogger == handlers = <<>> /\ level = "NOTSET" /\ emitted = 0

ReqAlphabet == {"a", "1", ">", "<", "=", "~", "!", ";", " "}

ReqStrings == ListsUpTo(ReqAlphabet, MaxReqLen)

NamePool ==
    ReqPool \cup { <<>>, <<"#", "c">>, <<">", "=", "1">>, <<";", "m">> }

\* pip_constraint_update reads list_one and list_two through set() alone: one
\* list is drawn for each set of at most MaxList entries
UpdateLists == {SortedSet(T) : T \in SetsUpTo(ReqPool, MaxList)}

InitPip ==
    /\ \/ fn = "_pip_requirement_split" /\ args \in {<<r>> : r \in ReqStrings}
       \/ fn = "pip_requirement_names" /\ args \in {<<l>> : l \in ListsUpTo(NamePool, MaxList)}
       \/ fn = "pip_constraint_update"
          /\ args \in UpdateLists \X UpdateLists
    /\ ret = Pending
    /\ NoLogger

CallSplit ==
    /\ fn = "_pip_requirement_split" /\ ret = Pending
    /\ ret' = Returned(_pip_requirement_split(args[1]))
    /\ UNCHANGED <<fn, args, handlers, level, emitted>>

CallNames ==
    /\ fn = "pip_requirement_names" /\ ret = Pending
    /\ ret' = Returned(pip_requirement_names(args[1]))
    /\ UNCHANGED <<fn, args, handlers, level, emitted>>

CallUpdate ==
    /\ fn = "pip_constraint_update" /\ ret = Pending
    /\ \E r \in pip_constraint_update(args[1], args[2]) : ret' = Returned(r)
    /\ UNCHANGED <<fn, args, handlers, level, emitted>>

NextPip == CallSplit \/ CallNames \/ CallUpdate

SpecPip == InitPip /\ [][NextPip]_vars

(* ------------------------- claims: pip filters -------------------------- *)

IsReturned(f) == fn = f /\ ret.state = "returned"

\* the operators a requirement may carry, as the specification lists them
ClaimOperators ==
    { <<">", "=">>, <<"<", "=">>, <<"=", "=">>, <<"~", "=">>, <<"!", "=">>,
      <<">">>, <<"<">> }

OperatorAt(part, i) ==
    \E op \in ClaimOperators :
        i + Len(op) - 1 <= Len(part) /\ SubSeq(part, i, i + Len(op) - 1) = op

\* C1: when the part of the requirement before the first ';' holds an
\* operator, _pip_requirement_split returns as name the text before the first
\* operator and as version spec the operator followed by the rest of that
\* part; when it holds none the name is the whole part and the version spec
\* is empty.
C1_SplitVersionSpec ==
    IsReturned("_pip_requirement_split") =>
        LET part == SplitOnce(args[1], <<";">>)[1]
            at   == {i \in 1..Len(part) : OperatorAt(part, i)}
        IN  IF at = {}
            THEN ret.value.name = part /\ ~Truthy(ret.value.versions)
            ELSE /\ ret.value.name = SubSeq(part, 1, SetMin(at) - 1)
                 /\ ret.value.versions = SubSeq(part, SetMin(at), Len(part))

Versioned(item) == Truthy(_pip_requirement_split(Lower(item)).versions)

ParsedName(item) == _pip_requirement_split(Lower(item)).name

\* C2: every overrides entry that carries a version constraint is, in lower
\* case, an entry of the result of pip_constraint_update(base, overrides).
C2_VersionedOverridesPresent ==
    IsReturned("pip_constraint_update") =>
        \A j \in 1..Len(args[2]) :
            Versioned(args[2][j]) => Lower(args[2][j]) \in Range(ret.value)

\* C3: an overrides entry without a version constraint has no effect on
\* pip_constraint_update: the results are those of the call without it, it is
\* not appended, with no versioned override the result is the sorted set of
\* the lower-cased base entries, and a base entry whose parsed name no
\* versioned override has stays in the result.
C3_UnversionedOverridesIgnored ==
    IsReturned("pip_constraint_update") =>
        LET base      == args[1]
            overrides == args[2]
            versioned == SelectSeq(overrides, Versioned)
            lowered   == {Lower(base[i]) : i \in 1..Len(base)}
        IN  /\ pip_constraint_update(base, overrides) = pip_constraint_update(base, versioned)
            /\ \A j \in 1..Len(overrides) :
                   (~Versioned(overrides[j]) /\ Lower(overrides[j]) \notin lowered)
                       => Lower(overrides[j]) \notin Range(ret.value)
            /\ versioned = <<>> => ret.value = SortedSet(lowered)
            /\ \A i \in 1..Len(base) :
                   (\A j \in 1..Len(overrides) :
                        Versioned(overrides[j]) => ParsedName(overrides[j]) # ParsedName(base[i]))
                       => Lower(base[i]) \in Range(ret.value)

\* a call whose overrides hold a versioned entry and an entry without a version
\* that names a base entry it differs from
C3_Witness ==
    /\ IsReturned("pip_constraint_update")
    /\ \E j, k \in 1..Len(args[2]), i \in 1..Len(args[1]) :
           /\ ~Versioned(args[2][j])
           /\ Versioned(args[2][k])
           /\ ParsedName(args[2][j]) = ParsedName(args[1][i])
           /\ Lower(args[2][j]) # Lower(args[1][i])
           /\ Lower(args[1][i]) \in Range(ret.value)

\* C4: pip_requirement_names returns the lower-cased parsed names of the
\* entries whose parsed name is not empty and does not start with '#', each
\* once, in ascending order.
C4_NamesSortedSet ==
    IsReturned("pip_requirement_names") =>
        LET parsed == {_pip_requirement_split(args[1][i]).name : i \in 1..Len(args[1])}
            kept   == {Lower(n) : n \in {m \in parsed : m # <<>> /\ Head(m) # "#"}}
        IN  /\ Range(ret.value) = kept
            /\ Len(ret.value) = Cardinality(kept)
            /\ \A i \in 1..(Len(ret.value) - 1) : StrLess(ret.value[i], ret.value[i + 1])

\* a call with a comment entry and an upper-case entry that returns a name
C4_Witness ==
    /\ IsReturned("pip_requirement_names")
    /\ \E i, j \in 1..Len(args[1]) :
           /\ StartsWith(args[1][i], <<"#">>)
           /\ Lower(args[1][j]) # args[1][j]
    /\ ret.value # <<>>

\* C9: for fixed base and overrides every visiting order of the two lower-cased
\* sets gives pip_constraint_update the same sorted result.
C9_OrderIndependent ==
    IsReturned("pip_constraint_update") =>
        pip_constraint_update(args[1], args[2]) = {ret.value}

(* ---------------------------- git_link_parse ---------------------------- *)

GitPlus == <<"g", "i", "t", "+">>

Master == <<"m", "a", "s", "t", "e", "r">>

SubdirectoryKey == <<"s", "u", "b", "d", "i", "r", "e", "c", "t", "o", "r", "y", "=">>

DotGit == <<".", "g", "i", "t">>

Last(l) == l[Len(l)]

\* str.rstrip(c) for a one-character c
RECURSIVE RStrip(_, _)
RStrip(s, c) ==
    IF s # <<>> /\ s[Len(s)] = c THEN RStrip(SubSeq(s, 1, Len(s) - 1), c) ELSE s

\* os.path.basename: what follows the last '/'
Basename(path) == Last(Split(path, <<"/">>))

\* plugin_path read from the second piece instead of the last
plugin_path_second(branch_pieces) ==
    IF Len(branch_pieces) > 1 /\ Contains(branch_pieces[2], SubdirectoryKey)
    THEN Split(Last(Split(branch_pieces[2], SubdirectoryKey)), <<"&">>)[1]
    ELSE None

\* plugin_path, from _branch = branch.split('#')
plugin_path_of(branch_pieces) ==
    IF Len(branch_pieces) > 1 /\ Contains(Last(branch_pieces), SubdirectoryKey)
    THEN Split(Last(Split(Last(branch_pieces), SubdirectoryKey)), <<"&">>)[1]
    ELSE None

git_link_parse(repo) ==
    LET git_url == IF Contains(repo, GitPlus)
                   THEN Last(SplitOnce(repo, GitPlus))
                   ELSE repo
        has_at  == Contains(git_url, <<"@">>)
        url     == IF has_at THEN SplitOnce(git_url, <<"@">>)[1] ELSE git_url
        branch  == IF has_at THEN SplitOnce(git_url, <<"@">>)[2] ELSE Master
        name    == Basename(RStrip(url, "/"))
        pieces  == Split(branch, <<"#">>)
    IN  [name        |-> Lower(Split(name, DotGit)[1]),
         version     |-> pieces[1],
         plugin_path |-> plugin_path_of(pieces),
         url         |-> url,
         original    |-> repo]

RECURSIVE Concat(_)
Concat(l) == IF l = <<>> THEN <<>> ELSE Head(l) \o Concat(Tail(l))

\* the parts a repo string is put together from
GitPieces ==
    { GitPlus, <<"h", "/", "R", ".", "g", "i", "t">>, <<"@", "v">>, <<"@">>, <<"#", "s", "u", "b", "d", "i", "r", "e", "c", "t", "o", "r", "y", "=", "p">>, <<"#", "e">>, <<"&", "q">>,
      <<"&", "s", "u", "b", "d", "i", "r", "e", "c", "t", "o", "r", "y", "=", "r">>, <<"/">> }

RepoStrings == {Concat(l) : l \in ListsUpTo(GitPieces, MaxPieces)}

InitGit ==
    /\ fn = "git_link_parse"
    /\ args \in {<<r>> : r \in RepoStrings}
    /\ ret = Pending
    /\ NoLogger

CallGitLinkParse ==
    /\ fn = "git_link_parse" /\ ret = Pending
    /\ ret' = Returned(git_link_parse(args[1]))
    /\ UNCHANGED <<fn, args, handlers, level, emitted>>

NextGit == CallGitLinkParse

SpecGit == InitGit /\ [][NextGit]_vars

(* ------------------------- claims: git_link_parse ------------------------ *)

\* C5: git_link_parse removes only a leading 'git+': url is repo without a
\* leading 'git+', cut at the first at-sign; version is "master" when that
\* working URL holds no at-sign; original is repo.
C5_OnlyLeadingGitPlus ==
    IsReturned("git_link_parse") =>
        LET repo    == args[1]
            working == IF StartsWith(repo, GitPlus)
                       THEN SubSeq(repo, Len(GitPlus) + 1, Len(repo))
                       ELSE repo
        IN  /\ ret.value.url = SplitOnce(working, <<"@">>)[1]
            /\ ~Contains(working, <<"@">>) => ret.value.version = Master
            /\ ret.value.original = repo

\* the text after the first at-sign of the URL git_link_parse works on, split
\* on '#' (the one piece "master" when there is no at-sign)
BranchPieces(repo) ==
    LET git_url == IF Contains(repo, GitPlus)
                   THEN SubSeq(repo, Find(repo, GitPlus) + Len(GitPlus), Len(repo))
                   ELSE repo
        at      == Find(git_url, <<"@">>)
    IN  IF at = 0 THEN <<Master>>
        ELSE Split(SubSeq(git_url, at + 1, Len(git_url)), <<"#">>)

\* the text after the first 'subdirectory=' of piece, up to the next '&'
ValueAfterFirstKey(piece) ==
    LET from == SubSeq(piece, Find(piece, SubdirectoryKey) + Len(SubdirectoryKey), Len(piece))
        amp  == Find(from, <<"&">>)
    IN  IF amp = 0 THEN from ELSE SubSeq(from, 1, amp - 1)

\* the text after the last 'subdirectory=' of piece, up to the next '&'
RECURSIVE ValueAfterLastKey(_)
ValueAfterLastKey(piece) ==
    LET from == SubSeq(piece, Find(piece, SubdirectoryKey) + Len(SubdirectoryKey), Len(piece))
    IN  IF Contains(from, SubdirectoryKey) THEN ValueAfterLastKey(from)
        ELSE ValueAfterFirstKey(piece)

\* C6 as stated: version is the first piece; if any later piece holds
\* 'subdirectory=<value>' then plugin_path is <value> up to the next '&', and
\* plugin_path is None only when no later piece holds 'subdirectory='.
C6_AnyLaterPiece ==
    IsReturned("git_link_parse") =>
        LET pieces == BranchPieces(args[1])
            later  == {i \in 2..Len(pieces) : Contains(pieces[i], SubdirectoryKey)}
        IN  /\ ret.value.version = pieces[1]
            /\ IF later = {} THEN ret.value.plugin_path = None
               ELSE \E i \in later : ret.value.plugin_path = ValueAfterFirstKey(pieces[i])

\* C6 as amended: version is the first piece; if there is more than one piece
\* and the last piece holds 'subdirectory=' then plugin_path is the text after
\* the last 'subdirectory=' of the last piece up to the next '&'; otherwise
\* plugin_path is None.
C6_LastPiece ==
    IsReturned("git_link_parse") =>
        LET pieces == BranchPieces(args[1])
        IN  /\ ret.value.version = pieces[1]
            /\ IF Len(pieces) > 1 /\ Contains(Last(pieces), SubdirectoryKey)
               THEN ret.value.plugin_path = ValueAfterLastKey(Last(pieces))
               ELSE ret.value.plugin_path = None

\* a call whose ref is followed by two '#' pieces, the last one holding
\* 'subdirectory=' and an '&', that returns a plugin path
C6_Witness ==
    /\ IsReturned("git_link_parse")
    /\ Len(BranchPieces(args[1])) > 2
    /\ Contains(Last(BranchPieces(args[1])), SubdirectoryKey)
    /\ Contains(Last(BranchPieces(args[1])), <<"&">>)
    /\ ret.value.plugin_path # None

(* ------------------------- bit_length_power_of_2 ------------------------- *)

\* int.bit_length(): the number of bits of the absolute value
RECURSIVE BitLength(_)
BitLength(n) ==
    IF n = 0 THEN 0
    ELSE IF n < 0 THEN BitLength(0 - n)
    ELSE 1 + BitLength(n \div 2)

bit_length_power_of_2(value) == 2 ^ BitLength(value - 1)

InitBits ==
    /\ fn = "bit_length_power_of_2"
    /\ args \in {<<v>> : v \in (0 - MaxValue)..MaxValue}
    /\ ret = Pending
    /\ NoLogger

CallBitLength ==
    /\ fn = "bit_length_power_of_2" /\ ret = Pending
    /\ ret' = Returned(bit_length_power_of_2(args[1]))
    /\ UNCHANGED <<fn, args, handlers, level, emitted>>

NextBits == CallBitLength

SpecBits == InitBits /\ [][NextBits]_vars

\* C7: bit_length_power_of_2(value) is the smallest power of two that is at
\* least value: 5 gives 8, 8 gives 8, and a value of 1 or less gives 1.
C7_SmallestPowerOfTwo ==
    IsReturned("bit_length_power_of_2") =>
        LET value  == args[1]
            powers == {2 ^ k : k \in 0..(BitLength(MaxValue) + 1)}
        IN  /\ ret.value \in powers
            /\ ret.value >= value
            /\ \A q \in powers : q >= value => ret.value <= q
            /\ value <= 1 => ret.value = 1

(* ------------------------------ deprecated ------------------------------ *)

Undefined == <<"Undefined">>

PyTrue == <<"PyTrue">>

PyFalse == <<"PyFalse">>

\* str(x)
Str(x) ==
    IF x = PyTrue THEN <<"T", "r", "u", "e">>
    ELSE IF x = PyFalse THEN <<"F", "a", "l", "s", "e">>
    ELSE IF x = None THEN <<"N", "o", "n", "e">>
    ELSE x

\* not x
Falsy(x) == x = None \/ x = <<>> \/ x = PyFalse

LoggerName == "Ansible-Warning| "

\* the fatal test without .lower()
fatal_requested_exact(fatal) == Str(fatal) \in {<<"y", "e", "s">>, <<"t", "r", "u", "e">>}

\* str(fatal).lower() in ['yes', 'true']
fatal_requested(fatal) == Lower(Str(fatal)) \in {<<"y", "e", "s">>, <<"t", "r", "u", "e">>}

\* the handler search that never finds the handler
has_named_handler_never(hs) == FALSE

\* the for loop over log.handlers: some handler has the logger's name
has_named_handler(hs) == \E i \in 1..Len(hs) : hs[i].name = LoggerName

\* the three tests of the descriptive arguments
names_missing(old_var_name, new_var_name, removed_in) ==
    Falsy(old_var_name) \/ Falsy(new_var_name) \/ Falsy(removed_in)

\* old_var is not in use
old_var_unused(old_var) == old_var = Undefined \/ Falsy(old_var)

\* a call that returns or raises before the logger is looked up
returns_early(a) == names_missing(a[3], a[4], a[5]) \/ old_var_unused(a[2])

\* what _deprecated returns or raises; a is
\* <<new_var, old_var, old_var_name, new_var_name, removed_in, fatal>>
_deprecated(a) ==
    IF names_missing(a[3], a[4], a[5]) THEN Raised("AnsibleUndefinedVariable")
    ELSE IF old_var_unused(a[2]) THEN Returned(a[1])
    ELSE IF fatal_requested(a[6]) THEN Raised("RuntimeError")
    ELSE Returned(a[2])

\* log.handlers after the call
deprecated_handlers(a, hs) ==
    IF returns_early(a) \/ has_named_handler(hs) THEN hs
    ELSE Append(hs, [name |-> LoggerName, level |-> "DEBUG"])

\* the number of lines log.fatal or log.warn writes: one for each handler
deprecated_lines(a, hs) == IF returns_early(a) THEN 0 ELSE Len(hs)

NameValues == {None, <<>>, <<"n">>}

OldVarValues == {Undefined, None, <<>>, <<"o">>}

FatalValues == {PyTrue, PyFalse, <<"y", "e", "s">>, <<"n", "o">>, <<"T", "r", "u", "e">>, <<"f", "a", "l", "s", "e">>}

DeprecatedArgs ==
    {<<"v">>} \X OldVarValues \X NameValues \X NameValues \X NameValues \X FatalValues

InitDeprecated ==
    /\ fn = "none"
    /\ args = <<>>
    /\ ret = Pending
    /\ NoLogger

CallDeprecated ==
    \E a \in DeprecatedArgs :
        /\ IF returns_early(a) THEN TRUE ELSE emitted < MaxLines
        /\ fn' = "deprecated"
        /\ args' = a
        /\ ret' = _deprecated(a)
        /\ handlers' = deprecated_handlers(a, handlers)
        /\ level' = IF handlers' = handlers THEN level ELSE "DEBUG"
        /\ emitted' = emitted + deprecated_lines(a, handlers')

NextDeprecated == CallDeprecated

SpecDeprecated == InitDeprecated /\ [][NextDeprecated]_vars

(* --------------------------- claims: deprecated -------------------------- *)

\* missing or empty, of a descriptive argument
Missing(x) == x \in {None, <<>>}

\* the values of fatal that say true
FatalIsTrue(x) == x \in {PyTrue, <<"y", "e", "s">>, <<"t", "r", "u", "e">>, <<"T", "r", "u", "e">>, <<"Y", "e", "s">>}

QuietCall ==
    /\ fn = "deprecated"
    /\ \/ Missing(args[3]) \/ Missing(args[4]) \/ Missing(args[5])
       \/ args[2] \in {Undefined, None, <<>>}

\* C10: the logger never carries more than one handler of its name; it starts
\* with no handler and no line emitted, and a call that failed argument
\* validation or had old_var undefined or empty leaves the logger as it was
\* (so the logger is untouched as long as every call so far was such a call).
C10_LoggerDiscipline ==
    /\ handlers = <<>> /\ emitted = 0
    /\ [](emitted = 0 => handlers = <<>>)
    /\ [](Cardinality({i \in 1..Len(handlers) : handlers[i].name = LoggerName}) <= 1)
    /\ [][QuietCall' => UNCHANGED logger]_vars

\* two lines were emitted through the one handler, and the call just made
\* returned new_var without logging
C10_Witness ==
    /\ emitted >= 2
    /\ Len(handlers) = 1
    /\ QuietCall
    /\ ret = Returned(args[1])

====
